---- MODULE Spec2Model ----
\* A model of mpser: the MessagePack writer MPWrite and reader MPRead
\* (src/mpser.py) over one shared io.BytesIO, with the marker table of
\* src/mp.py.
\*
\* Python integers are unbounded; they are kept here as big-endian two's
\* complement byte strings of IntWidth bytes, so that the 64-bit boundaries
\* the code tests can be stated within TLC's 32-bit integers.
EXTENDS Integers, Sequences, FiniteSets, TLC

VARIABLES
    buffer,     \* the bytes held by the BytesIO (getvalue())
    pos,        \* the BytesIO cursor (tell())
    last,       \* the last call: its name, arguments, outcome and pre-state
    mode,       \* history: "writing", "rewound" or "dirty" (see WriteCall)
    wlog,       \* history: the integer writes that returned, while not dirty
    nread,      \* history: read_int calls that returned since the rewind
    nwrites     \* write calls made so far

vars == <<buffer, pos, last, mode, wlog, nread, nwrites>>

\* ------------------------------------------------------------------ bounds

\* Write calls made on one buffer.
MaxWrites == 2

\* Bytes of the two's complement form of an integer (64 bits and one more
\* byte, so that 2^64 and -2^63 - 1 are representable).
IntWidth == 9

\* ------------------------------------------------------- the marker table

PositiveFixInt == 0
NegativeFixInt == 224
FixMap == 128
FixArray == 144
FixStr == 160
Nil == 192
UNUSED == 193
BoolFalse == 194
BoolTrue == 195
Bin8 == 196
Bin16 == 197
Bin32 == 198
Ext8 == 199
Ext16 == 200
Ext32 == 201
Float32 == 202
Float64 == 203
UInt8 == 204
UInt16 == 205
UInt32 == 206
UInt64 == 207
Int8 == 208
Int16 == 209
Int32 == 210
Int64 == 211
FixExt1 == 212
FixExt2 == 213
FixExt4 == 214
FixExt8 == 215
FixExt16 == 216
Str8 == 217
Str16 == 218
Str32 == 219
Array16 == 220
Array32 == 221
Map16 == 222
Map32 == 223

\* The values for which MsgPackMarker(value) is a member of the enum.
MsgPackMarker ==
    {PositiveFixInt, NegativeFixInt, FixMap, FixArray, FixStr} \cup (Nil .. Map32)

\* ------------------------------------------------------ bytes and integers

Byte == 0 .. 255

Rep(b, n) == [i \in 1 .. n |-> b]

\* The low n bytes of a byte string.
LowBytes(v, n) == SubSeq(v, Len(v) - n + 1, Len(v))

\* The low byte, as a number.
LowByte(v) == v[Len(v)]

\* An unsigned / a signed big-endian byte string as a Python integer.
ZExt(bs) == Rep(0, IntWidth - Len(bs)) \o bs
SExt(bs) == Rep(IF bs[1] >= 128 THEN 255 ELSE 0, IntWidth - Len(bs)) \o bs

BE32(n) == <<n \div 16777216, (n \div 65536) % 256, (n \div 256) % 256, n % 256>>

\* The Python integer n, for -2^31 <= n < 2^31.
PyInt(n) ==
    IF n >= 0 THEN ZExt(BE32(n))
    ELSE LET m == BE32((n + 2147483647) + 1)
         IN  SExt(<<m[1] + 128, m[2], m[3], m[4]>>)

IsNeg(v) == v[1] >= 128

\* Unsigned lexicographic a <= b on byte strings of one length.
LexLE(a, b) ==
    \/ a = b
    \/ \E i \in 1 .. Len(a) :
          /\ a[i] < b[i]
          /\ \A j \in 1 .. i - 1 : a[j] = b[j]

\* Python's a <= b and a < b, a > b on integers.
IntLE(a, b) ==
    IF IsNeg(a) # IsNeg(b) THEN IsNeg(a) ELSE LexLE(a, b)
IntLT(a, b) == IntLE(a, b) /\ a # b
IntGT(a, b) == ~IntLE(a, b)

\* The literals the code compares with.
X7F == PyInt(127)
XF == PyInt(15)
XFF == PyInt(255)
XFFFF == PyInt(65535)
XFFFFFFFF == ZExt(Rep(255, 4))
XFFFFFFFFFFFFFFFF == ZExt(Rep(255, 8))

\* len(x) as a Python integer.
PyLen(s) == PyInt(Len(s))

\* A byte string of at most 4 bytes as a number, when it is below 2^31.
Nat4(bs) ==
    IF bs = <<>> THEN 0
    ELSE LET RECURSIVE F(_)
             F(k) == IF k = 0 THEN 0 ELSE F(k - 1) * 256 + bs[k]
         IN  F(Len(bs))

\* value[: n] where n is given by its big-endian bytes (n = length & mask, so
\* n >= 2^31 only when it is len(value) itself or more).
Slice(s, nbytes) ==
    IF Len(nbytes) = 4 /\ nbytes[1] >= 128 THEN s
    ELSE LET n == Nat4(nbytes)
         IN  IF n >= Len(s) THEN s ELSE SubSeq(s, 1, n)

\* ------------------------------------------------------------ Python values

IntV(v) == [type |-> "int", int |-> v]
BoolV(b) == [type |-> "bool", bool |-> b]
StrV(s) == [type |-> "str", str |-> s]
BytesV(b) == [type |-> "bytearray", bytes |-> b]
FloatV(f) == [type |-> "float", float |-> f]
ListV(e) == [type |-> "list", list |-> e]
DictV(kv) == [type |-> "dict", dict |-> kv]
NoneV == [type |-> "NoneType"]
ObjectV == [type |-> "object"]

\* bool is a subclass of int: isinstance(True, int) holds, and True is 1.
IsInstanceInt(value) == value.type \in {"int", "bool"}
AsInt(value) ==
    IF value.type = "bool" THEN PyInt(IF value.bool THEN 1 ELSE 0) ELSE value.int

\* str.encode("utf8") of one code point, and of a string of code points.
Utf8Char(cp) ==
    IF cp < 128 THEN <<cp>>
    ELSE IF cp < 2048 THEN <<192 + (cp \div 64), 128 + (cp % 64)>>
    ELSE IF cp < 65536
         THEN <<224 + (cp \div 4096), 128 + ((cp \div 64) % 64), 128 + (cp % 64)>>
    ELSE <<240 + (cp \div 262144), 128 + ((cp \div 4096) % 64),
           128 + ((cp \div 64) % 64), 128 + (cp % 64)>>

RECURSIVE Utf8(_)
Utf8(s) ==
    IF s = <<>> THEN <<>>
    ELSE IF Len(s) = 1 THEN Utf8Char(s[1])
    ELSE LET h == Len(s) \div 2
         IN  Utf8(SubSeq(s, 1, h)) \o Utf8(SubSeq(s, h + 1, Len(s)))

\* struct.pack(">f", x) and struct.pack(">d", x) on the floats of the tests.
PackFloat32(f) ==
    CASE f = "3.14" -> <<64, 72, 245, 195>>
      [] f = "1.618" -> <<63, 207, 26, 160>>
PackFloat64(f) ==
    CASE f = "3.14" -> <<64, 9, 30, 184, 81, 235, 133, 31>>
      [] f = "1.618" -> <<63, 249, 227, 83, 247, 206, 217, 23>>

\* ------------------------------------------------------------------ MPWrite

\* The outcome of a write call: the bytes it passed to buffer.write, in
\* order, and the exception that ended it ("" when it returned).
Ok(bytes) == [out |-> bytes, err |-> ""]
Raise(bytes, e) == [out |-> bytes, err |-> e]

\* r, then s unless r raised.
Then(r, s) ==
    IF r.err # "" THEN r ELSE [out |-> r.out \o s.out, err |-> s.err]

\* struct.pack("b", x) for 0 <= x <= 255: the format is the signed byte.
PackSignedByte(x) ==
    IF x > 127 THEN Raise(<<>>, "struct.error") ELSE Ok(<<x>>)

write_integer(value, t) ==
    CASE t = PositiveFixInt -> Ok(<<LowByte(value) % 128>>)
      [] t = NegativeFixInt -> Ok(<<t + (LowByte(value) % 32)>>)
      [] t \in {UInt8, Int8} ->
            \* the payload is packed before _write_pair writes the marker
            LET p == PackSignedByte(LowByte(value))
            IN  IF p.err # "" THEN p ELSE Ok(<<t>> \o p.out)
      [] t \in {UInt16, Int16} -> Ok(<<t>> \o LowBytes(value, 2))
      [] t \in {UInt32, Int32} -> Ok(<<t>> \o LowBytes(value, 4))
      [] t \in {UInt64, Int64} -> Ok(<<t>> \o LowBytes(value, 8))
      [] OTHER -> Ok(<<>>)

write_float(f, t) ==
    CASE t = Float32 -> Ok(<<t>> \o PackFloat32(f))
      [] t = Float64 -> Ok(<<t>> \o PackFloat64(f))
      [] OTHER -> Ok(<<>>)

\* The elements of a str (code points) or of a bytearray (bytes).
Elems(value) == IF value.type = "str" THEN value.str ELSE value.bytes

\* The payload bytes of value[: n]: encoded for a str, as they are otherwise.
Payload(value, nbytes) ==
    IF value.type = "str" THEN Utf8(Slice(value.str, nbytes))
    ELSE Slice(value.bytes, nbytes)

write_str(value, t) ==
    LET length == PyLen(Elems(value)) IN
    CASE t = FixStr ->
            \* the header is written, then .encode is called on the slice
            \* whatever its type
            LET hdr == <<t + (LowByte(length) % 32)>>
            IN  IF value.type = "str"
                THEN Ok(hdr \o Utf8(Slice(value.str, LowBytes(length, 4))))
                ELSE Raise(hdr, "AttributeError")
      [] t \in {Str8, Bin8} ->
            Ok(<<t>> \o LowBytes(length, 1) \o Payload(value, LowBytes(length, 1)))
      [] t \in {Str16, Bin16} ->
            Ok(<<t>> \o LowBytes(length, 2) \o Payload(value, LowBytes(length, 2)))
      [] t \in {Str32, Bin32} ->
            Ok(<<t>> \o LowBytes(length, 4) \o Payload(value, LowBytes(length, 4)))
      [] OTHER -> Ok(<<>>)

write_bin(value, t) == write_str(value, t)

write_bool(b) == Ok(<<IF b THEN BoolTrue ELSE BoolFalse>>)

write_nil == Ok(<<Nil>>)

\* _write_any, integer branch: the marker chosen for an integer.
IntMarkerFor(value) ==
    IF IntLE(value, X7F) THEN PositiveFixInt
    ELSE IF IntGT(value, X7F) /\ IntLE(value, XFFFF) THEN UInt16
    ELSE IF IntGT(value, XFFFF) /\ IntLE(value, XFFFFFFFF) THEN UInt32
    ELSE UInt64

\* _write_any, str branch: the marker chosen for a string of this length.
StrMarkerFor(length) ==
    IF IntLE(length, XFF) THEN Str8
    ELSE IF IntGT(length, XFF) /\ IntLE(length, XFFFF) THEN Str16
    ELSE IF IntGT(length, XFFFF) /\ IntLE(length, XFFFFFFFF) THEN FixStr
    ELSE Str32

\* ArrTypeFor, had the fixarray bound been tested with >= in place of >.
ArrTypeForOffByOne(arr_len) ==
    IF ~IntLT(arr_len, XF) /\ IntLE(arr_len, XFFFF) THEN Array16
    ELSE IF IntGT(arr_len, XFFFF) THEN Array32
    ELSE FixArray

\* _write_any, list branch: the marker chosen for a list of this length.
ArrTypeFor(arr_len) ==
    IF IntGT(arr_len, XF) /\ IntLE(arr_len, XFFFF) THEN Array16
    ELSE IF IntGT(arr_len, XFFFF) THEN Array32
    ELSE FixArray

\* write_array: the header bytes for marker t and len(arr) = length.
ArrayHeader(t, length) ==
    CASE t = FixArray -> <<t + (LowByte(length) % 16)>>
      [] t = Array16 -> <<t>> \o LowBytes(length, 2)
      [] t = Array32 -> <<t>> \o LowBytes(length, 4)
      [] OTHER -> <<>>

\* write_map: the header for len(value) = length, or the failed assertion.
MapHeader(length) ==
    IF ~IntLE(length, XFFFFFFFF) THEN Raise(<<>>, "AssertionError")
    ELSE IF IntLE(length, XF) THEN Ok(<<FixMap + (LowByte(length) % 16)>>)
    ELSE IF IntGT(length, XF) /\ IntLE(length, XFFFF)
         THEN Ok(<<Map16>> \o LowBytes(length, 2))
    ELSE Ok(<<Map32>> \o LowBytes(length, 4))

\* The assertions of _write_any on an integer and on the length of a str.
IntAssertion(value) == IntLE(value, XFFFFFFFFFFFFFFFF)
StrAssertion(length) == IntLT(length, XFFFFFFFF)

RECURSIVE write_any(_), write_array(_, _), write_map(_), WriteElems(_), WriteItems(_)

\* for elm in arr: self._write_any(elm)
WriteElems(arr) ==
    IF arr = <<>> THEN Ok(<<>>)
    ELSE Then(write_any(Head(arr)), WriteElems(Tail(arr)))

\* for k, v in value.items(): self._write_any(k); self._write_any(v)
WriteItems(kv) ==
    IF kv = <<>> THEN Ok(<<>>)
    ELSE Then(write_any(Head(kv)[1]),
              Then(write_any(Head(kv)[2]), WriteItems(Tail(kv))))

write_array(arr, t) == Then(Ok(ArrayHeader(t, PyLen(arr))), WriteElems(arr))

write_map(kv) == Then(MapHeader(PyLen(kv)), WriteItems(kv))

write_any(value) ==
    IF IsInstanceInt(value) THEN
        IF ~IntAssertion(AsInt(value))
        THEN Raise(<<>>, "AssertionError")
        ELSE write_integer(AsInt(value), IntMarkerFor(AsInt(value)))
    ELSE IF value.type = "str" THEN
        IF ~StrAssertion(PyLen(value.str))
        THEN Raise(<<>>, "AssertionError")
        ELSE write_str(value, StrMarkerFor(PyLen(value.str)))
    ELSE IF value.type = "float" THEN write_float(value.float, Float32)
    ELSE IF value.type = "bool" THEN write_bool(value.bool)
    ELSE IF value.type = "list" THEN
        write_array(value.list, ArrTypeFor(PyLen(value.list)))
    ELSE IF value.type = "dict" THEN write_map(value.dict)
    ELSE IF value.type = "NoneType" THEN write_nil
    ELSE Raise(<<>>, "ValueError")

\* BytesIO.write(b) at the cursor: overwrites, and extends past the end.
BytesIOWrite(buf, p, b) ==
    SubSeq(buf, 1, p) \o b \o SubSeq(buf, p + Len(b) + 1, Len(buf))

\* ------------------------------------------------------------------- MPRead

\* What a call returned: None, an int, a 1-tuple holding an int, or a float
\* (kept as the bytes struct.unpack was given).
PyNone == [kind |-> "None"]
PyIntR(v) == [kind |-> "int", int |-> v]
PyTupleR(v) == [kind |-> "tuple", int |-> v]
PyFloatR(bits) == [kind |-> "float", bits |-> bits]

\* The outcome of a read call: the value returned or the exception raised
\* ("" when it returned), and the cursor it leaves.
Returned(v, p) == [ret |-> v, err |-> "", pos |-> p]
Raised(e, p) == [ret |-> PyNone, err |-> e, pos |-> p]

\* _read_and_advance: BytesIO.read(size) gives the bytes that are left, up to
\* size of them, and moves the cursor past them.
ReadBytes(buf, p, size) ==
    SubSeq(buf, p + 1, IF p + size > Len(buf) THEN Len(buf) ELSE p + size)

\* struct.unpack(fmt, self._read_and_advance(size)) for a format of one
\* integer of size bytes; subscripted with [0] or returned as the tuple.
\* UnpackInt, had the payload been looked at without moving the cursor.
UnpackIntPeek(buf, p, size, signed, subscripted) ==
    LET data == ReadBytes(buf, p, size)
        v == IF signed THEN SExt(data) ELSE ZExt(data)
    IN  IF Len(data) # size THEN Raised("struct.error", p)
        ELSE Returned(IF subscripted THEN PyIntR(v) ELSE PyTupleR(v), p)

UnpackInt(buf, p, size, signed, subscripted) ==
    LET data == ReadBytes(buf, p, size)
        v == IF signed THEN SExt(data) ELSE ZExt(data)
    IN  IF Len(data) # size THEN Raised("struct.error", p + Len(data))
        ELSE Returned(IF subscripted THEN PyIntR(v) ELSE PyTupleR(v), p + size)

UnpackFloat(buf, p, size) ==
    LET data == ReadBytes(buf, p, size)
    IN  IF Len(data) # size THEN Raised("struct.error", p + Len(data))
        ELSE Returned(PyFloatR(data), p + size)

read_int(buf, p) ==
    LET byte == ReadBytes(buf, p, 1)
        p1 == p + Len(byte)
        value == IF byte = <<>> THEN 0 ELSE byte[1]
    IN  IF (value \div 128) % 2 = 0 THEN
            \* struct.unpack("B", byte)[0] & 0x7F
            IF byte = <<>> THEN Raised("struct.error", p1)
            ELSE Returned(PyIntR(PyInt(value % 128)), p1)
        ELSE IF value \div 32 = 7 THEN Returned(PyIntR(SExt(byte)), p1)
        ELSE IF value \notin MsgPackMarker THEN Raised("ValueError", p1)
        ELSE CASE value = UInt8 -> UnpackInt(buf, p1, 1, FALSE, FALSE)
               [] value = Int8 -> UnpackInt(buf, p1, 1, TRUE, FALSE)
               [] value = UInt16 -> UnpackInt(buf, p1, 2, FALSE, TRUE)
               [] value = Int16 -> UnpackInt(buf, p1, 2, TRUE, TRUE)
               [] value = UInt32 -> UnpackInt(buf, p1, 4, FALSE, TRUE)
               [] value = Int32 -> UnpackInt(buf, p1, 4, TRUE, TRUE)
               [] value = UInt64 -> UnpackInt(buf, p1, 8, FALSE, TRUE)
               [] value = Int64 -> UnpackInt(buf, p1, 8, TRUE, TRUE)
               [] OTHER -> Returned(PyNone, p1)

read_float(buf, p) ==
    LET byte == ReadBytes(buf, p, 1)
        p1 == p + Len(byte)
    IN  IF byte = <<>> THEN Raised("struct.error", p1)
        ELSE IF byte[1] \notin MsgPackMarker THEN Raised("ValueError", p1)
        ELSE CASE byte[1] = Float32 -> UnpackFloat(buf, p1, 4)
               [] byte[1] = Float64 -> UnpackFloat(buf, p1, 8)
               [] OTHER -> Returned(PyNone, p1)

\* ------------------------------------------------------------------- inputs

Pow2_32 == ZExt(<<1, 0, 0, 0, 0>>)
Pow2_32p1 == ZExt(<<1, 0, 0, 0, 1>>)
Pow2_64 == ZExt(<<1, 0, 0, 0, 0, 0, 0, 0, 0>>)
MinInt64 == SExt(<<128, 0, 0, 0, 0, 0, 0, 0>>)

\* Integers on both sides of every boundary the writer tests.
IntInputs ==
    {PyInt(n) : n \in {0, 127, 128, 255, 256, 65535, 65536,
                       -1, -32, -33, -129}}
    \cup {XFFFFFFFF, Pow2_32, XFFFFFFFFFFFFFFFF, Pow2_64, MinInt64}

\* Integers passed to write_integer with a marker (some of test_int, and one
\* with a low byte above 0x7F).
ExplicitInts == {PyInt(-12), PyInt(200), PyInt(65538), Pow2_32p1}

IntMarkers ==
    {PositiveFixInt, NegativeFixInt, UInt8, UInt16, UInt32, UInt64,
     Int8, Int16, Int32, Int64}

\* Strings, as code points: "", "a", "é", "Д€", and 31, 32 and 256 times "x".
StrInputs ==
    {<<>>, <<97>>, <<233>>, <<1044, 8364>>, Rep(120, 31), Rep(120, 32),
     Rep(120, 256)}

BinInputs == {<<>>, <<UNUSED>>, Rep(65, 5), [i \in 1 .. 32 |-> i - 1]}

FloatInputs == {"3.14", "1.618"}

\* Lengths on both sides of every boundary of the length families.
LenInputs ==
    {PyInt(n) : n \in {0, 1, 15, 16, 31, 32, 255, 256, 65535, 65536}}
    \cup {ZExt(<<255, 255, 255, 254>>), XFFFFFFFF, Pow2_32}

IntOf(n) == IntV(PyInt(n))
StrOf(c) == StrV(<<c>>)

ListInputs ==
    {<<>>,
     <<IntOf(1), StrOf(97)>>,
     <<BoolV(TRUE), NoneV>>,
     <<IntOf(1), IntV(Pow2_64)>>,
     <<ListV(<<NoneV>>), FloatV("3.14")>>,
     <<StrOf(97), ObjectV, IntOf(2)>>,
     <<DictV(<<<<StrOf(97), BoolV(FALSE)>>>>), IntOf(200)>>,
     Rep(NoneV, 15),
     Rep(NoneV, 16)}

DictInputs ==
    {<<>>,
     <<<<StrOf(97), BoolV(TRUE)>>>>,
     <<<<StrOf(107), ListV(<<IntOf(1)>>)>>, <<IntOf(1), NoneV>>>>,
     <<<<IntOf(1), ObjectV>>>>,
     <<<<BoolV(TRUE), NoneV>>>>,
     <<<<StrOf(97), DictV(<<<<IntOf(2), IntOf(-1)>>>>)>>, <<StrOf(98), StrOf(233)>>>>,
     [i \in 1 .. 15 |-> <<IntOf(i), NoneV>>],
     [i \in 1 .. 16 |-> <<IntOf(i), NoneV>>]}

\* The lists and dicts handed to _write_any, and some leaves.
TreeInputs ==
    {ListV(e) : e \in ListInputs} \cup {DictV(kv) : kv \in DictInputs}
    \cup {NoneV, BoolV(TRUE), StrOf(97), IntOf(200)}

\* The values handed to _write_any.
AnyInputs ==
    {IntV(v) : v \in IntInputs}
    \cup {BoolV(TRUE), BoolV(FALSE), NoneV, ObjectV, BytesV(<<65>>)}
    \cup {StrV(s) : s \in StrInputs}
    \cup {FloatV(f) : f \in FloatInputs}
    \cup {ListV(e) : e \in ListInputs}
    \cup {DictV(kv) : kv \in DictInputs}

\* The contents of the BytesIO a reader is constructed on: every string of at
\* most two of these bytes, and some longer encodings, whole and cut short.
ReadBytesInputs ==
    {5, FixMap + 5, FixStr + 1, Nil, UNUSED, Float32, UInt8, UInt16, Int8,
     Str8, 255}

InitBuffers ==
    {<<>>}
    \cup {<<a>> : a \in ReadBytesInputs}
    \cup {<<a, b>> : a, b \in ReadBytesInputs}
    \cup {<<Float32, 64, 72, 245, 195, Int8, 255>>, <<Float32, 64, 72>>,
          <<UInt32, 0, 1, 0>>, <<Int64, 255, 255, 255, 255, 255, 255, 255, 254>>,
          <<Float64, 64, 9, 30, 184, 81, 235, 133, 31, UNUSED>>,
          <<Int16, 255, 127, UInt64, 1>>}

\* ------------------------------------------------------------------ actions

\* The next state is n.
Becomes(n) ==
    /\ buffer' = n.buffer
    /\ pos' = n.pos
    /\ last' = n.last
    /\ mode' = n.mode
    /\ wlog' = n.wlog
    /\ nread' = n.nread
    /\ nwrites' = n.nwrites

Call(op, arg, t, err, ret) ==
    [op |-> op, arg |-> arg, t |-> t, err |-> err, ret |-> ret,
     buf0 |-> buffer, pos0 |-> pos]

\* The state after a write call with outcome r. intwrite: the call writes
\* one integer (_write_any on an int, or write_integer with an integer
\* marker); the history stays "writing" while only such calls were made.
AfterWrite(op, arg, t, r, intwrite) ==
    LET m == IF mode = "writing" /\ intwrite THEN "writing" ELSE "dirty"
    IN  [buffer |-> BytesIOWrite(buffer, pos, r.out),
         pos |-> pos + Len(r.out),
         last |-> Call(op, arg, t, r.err, PyNone),
         mode |-> m,
         wlog |-> IF m = "writing"
                  THEN IF r.err = ""
                       THEN Append(wlog, [op |-> op, arg |-> arg, t |-> t,
                                          out |-> r.out])
                       ELSE wlog
                  ELSE <<>>,
         nread |-> 0,
         nwrites |-> nwrites + 1]

WriteAny ==
    \E value \in AnyInputs :
        /\ nwrites < MaxWrites
        /\ Becomes(AfterWrite("_write_any", value, -1, write_any(value),
                                value.type = "int"))

WriteAnyInt ==
    \E value \in {IntV(v) : v \in IntInputs} :
        /\ nwrites < MaxWrites
        /\ Becomes(AfterWrite("_write_any", value, -1, write_any(value), TRUE))

WriteAnyTree ==
    \E value \in TreeInputs :
        /\ nwrites < MaxWrites
        /\ Becomes(AfterWrite("_write_any", value, -1, write_any(value), FALSE))

WriteInteger ==
    \E value \in ExplicitInts, t \in IntMarkers \cup {Float32} :
        /\ nwrites < MaxWrites
        /\ Becomes(AfterWrite("write_integer", IntV(value), t,
                                write_integer(value, t), t \in IntMarkers))

WriteFloat ==
    \E f \in FloatInputs, t \in {Float32, Float64, Nil} :
        /\ nwrites < MaxWrites
        /\ Becomes(AfterWrite("write_float", FloatV(f), t, write_float(f, t), FALSE))

WriteStr ==
    \E s \in StrInputs, t \in {FixStr, Str8, Str16, Str32, Bin8, Nil} :
        /\ nwrites < MaxWrites
        /\ Becomes(AfterWrite("write_str", StrV(s), t, write_str(StrV(s), t), FALSE))

WriteBin ==
    \E b \in BinInputs, t \in {Bin8, Bin16, Bin32, Str8, FixStr} :
        /\ nwrites < MaxWrites
        /\ Becomes(AfterWrite("write_bin", BytesV(b), t, write_bin(BytesV(b), t),
                                FALSE))

WriteBool ==
    \E b \in BOOLEAN :
        /\ nwrites < MaxWrites
        /\ Becomes(AfterWrite("write_bool", BoolV(b), -1, write_bool(b), FALSE))

WriteNil ==
    /\ nwrites < MaxWrites
    /\ Becomes(AfterWrite("write_nil", NoneV, -1, write_nil, FALSE))

WriteArray ==
    \E arr \in ListInputs, t \in {FixArray, Array16, Array32, Nil} :
        /\ nwrites < MaxWrites
        /\ Becomes(AfterWrite("write_array", ListV(arr), t, write_array(arr, t),
                                FALSE))

WriteMap ==
    \E kv \in DictInputs :
        /\ nwrites < MaxWrites
        /\ Becomes(AfterWrite("write_map", DictV(kv), -1, write_map(kv), FALSE))

\* buffer.seek(0), as the tests do between writing and reading.
Rewind ==
    /\ pos' = 0
    /\ last' = Call("seek", NoneV, -1, "", PyNone)
    /\ mode' = IF mode \in {"writing", "rewound"} THEN "rewound" ELSE "dirty"
    /\ nread' = 0
    /\ UNCHANGED <<buffer, wlog, nwrites>>

\* The state after a read call with outcome r. The history stays "rewound"
\* while only read_int was called since the rewind.
AfterRead(op, r) ==
    LET m == IF mode = "rewound" /\ op = "read_int" THEN "rewound" ELSE "dirty"
    IN  [buffer |-> buffer,
         pos |-> r.pos,
         last |-> Call(op, NoneV, -1, r.err, r.ret),
         mode |-> m,
         wlog |-> IF m = "rewound" THEN wlog ELSE <<>>,
         nread |-> IF m = "rewound"
                   THEN (IF r.err = "" THEN nread + 1 ELSE nread)
                   ELSE 0,
         nwrites |-> nwrites]

ReadInt ==
    /\ pos <= Len(buffer)
    /\ Becomes(AfterRead("read_int", read_int(buffer, pos)))

ReadFloat ==
    /\ pos <= Len(buffer)
    /\ Becomes(AfterRead("read_float", read_float(buffer, pos)))

\* ----------------------------------------------------------- specifications

Init ==
    /\ buffer \in InitBuffers
    /\ pos = 0
    /\ last = [op |-> "init", arg |-> NoneV, t |-> -1, err |-> "",
               ret |-> PyNone, buf0 |-> buffer, pos0 |-> 0]
    /\ mode = IF buffer = <<>> THEN "writing" ELSE "dirty"
    /\ wlog = <<>>
    /\ nread = 0
    /\ nwrites = 0

InitEmpty == Init /\ buffer = <<>>

\* Every operation of the writer on one buffer, and the caller's rewind.
Next ==
    \/ WriteAny
    \/ WriteInteger
    \/ WriteFloat
    \/ WriteStr
    \/ WriteBin
    \/ WriteBool
    \/ WriteNil
    \/ WriteArray
    \/ WriteMap
    \/ Rewind

Spec == InitEmpty /\ [][Next]_vars

\* Integer writes, a rewind and integer reads, from an empty buffer.
NextInt == WriteAnyInt \/ WriteInteger \/ Rewind \/ ReadInt

SpecInt == InitEmpty /\ [][NextInt]_vars

\* Lists and dicts through the general encoder, from an empty buffer.
NextTree == WriteAnyTree \/ Rewind

SpecTree == InitEmpty /\ [][NextTree]_vars

\* The reader on a buffer it is handed.
NextRead == ReadInt \/ ReadFloat \/ Rewind

SpecRead == Init /\ [][NextRead]_vars

\* ------------------------------------------------------------------- claims

WriteOps ==
    {"_write_any", "write_integer", "write_float", "write_str", "write_bin",
     "write_bool", "write_nil", "write_array", "write_map"}

\* The bytes the last write call put in the buffer.
Written == SubSeq(buffer, last.pos0 + 1, pos)

\* -2^63 <= v <= 2^64 - 1.
InInt64Range(v) == IntLE(MinInt64, v) /\ IntLE(v, XFFFFFFFFFFFFFFFF)

\* C1: an integer v in [-2^63, 2^64 - 1] written by _write_any into an empty
\* buffer is, after a rewind to 0, returned by read_int as the int v.
C1_RoundTripInt ==
    ( /\ mode = "rewound"
      /\ last.op = "read_int"
      /\ last.pos0 = 0
      /\ Len(wlog) = 1
      /\ wlog[1].op = "_write_any"
      /\ InInt64Range(wlog[1].arg.int) )
    => (last.err = "" /\ last.ret = PyIntR(wlog[1].arg.int))

\* The number of leading elements of a list that _write_any encodes.
RECURSIVE CountOk(_)
CountOk(arr) ==
    IF arr = <<>> \/ write_any(Head(arr)).err # "" THEN 0
    ELSE 1 + CountOk(Tail(arr))

RECURSIVE CountPairsOk(_)
CountPairsOk(kv) ==
    IF kv = <<>> \/ write_any(Head(kv)[1]).err # "" \/ write_any(Head(kv)[2]).err # ""
    THEN 0
    ELSE 1 + CountPairsOk(Tail(kv))

\* The length a header declares (in the low bits of the marker when the
\* length field has no bytes of its own), and the bytes the header takes.
DeclaredLen(w, mask, width) ==
    IF width = 0 THEN w[1] % mask ELSE Nat4(SubSeq(w, 2, 1 + width))
HeaderLen(width) == 1 + width

LenWidth(t) ==
    CASE t \in {FixStr, FixArray, FixMap} -> 0
      [] t \in {Str8, Bin8} -> 1
      [] t \in {Str16, Bin16, Array16, Map16} -> 2
      [] t \in {Str32, Bin32, Array32, Map32} -> 4

FixMask(t) == IF t = FixStr THEN 32 ELSE 16

\* C2: the length in the header a write_str / write_bin call writes is the
\* number of payload bytes it writes after it, and the count in the header
\* a write_array / write_map call writes is the number of elements / pairs
\* it writes after it.
C2_LengthPrefix ==
    /\ ( /\ last.op \in {"write_str", "write_bin"}
         /\ last.t \in {FixStr, Str8, Str16, Str32, Bin8, Bin16, Bin32}
         /\ Written # <<>> )
       => DeclaredLen(Written, FixMask(last.t), LenWidth(last.t))
            = Len(Written) - HeaderLen(LenWidth(last.t))
    /\ ( /\ last.op = "write_array"
         /\ last.t \in {FixArray, Array16, Array32} )
       => DeclaredLen(Written, FixMask(last.t), LenWidth(last.t))
            = CountOk(last.arg.list)
    /\ (last.op = "write_map" /\ Written # <<>>)
       => LET t == IF Written[1] \in {Map16, Map32} THEN Written[1] ELSE FixMap
          IN  DeclaredLen(Written, FixMask(t), LenWidth(t))
                = CountPairsOk(last.arg.dict)

\* The family of a leading byte: the two fixint families by bit pattern, any
\* other by the byte itself.
IntFamily(b) ==
    IF b < 128 THEN PositiveFixInt
    ELSE IF b >= 224 THEN NegativeFixInt
    ELSE b

\* The smallest integer family that holds v.
SmallestIntFamily(v) ==
    IF ~IsNeg(v) THEN
        IF IntLE(v, X7F) THEN PositiveFixInt
        ELSE IF IntLE(v, XFF) THEN UInt8
        ELSE IF IntLE(v, XFFFF) THEN UInt16
        ELSE IF IntLE(v, XFFFFFFFF) THEN UInt32
        ELSE UInt64
    ELSE
        IF IntLE(PyInt(-32), v) THEN NegativeFixInt
        ELSE IF IntLE(PyInt(-128), v) THEN Int8
        ELSE IF IntLE(PyInt(-32768), v) THEN Int16
        ELSE IF IntLE(PyInt(-2147483647 - 1), v) THEN Int32
        ELSE Int64

\* C3: for an integer in [-2^63, 2^64 - 1], _write_any writes the marker of
\* the smallest family that holds it, signed for a negative value and
\* unsigned for the others.
C3_IntFamily ==
    ( /\ last.op = "_write_any"
      /\ last.arg.type = "int"
      /\ InInt64Range(last.arg.int) )
    => ( /\ last.err = ""
         /\ Written # <<>>
         /\ IntFamily(Written[1]) = SmallestIntFamily(last.arg.int) )

\* The string family the length ladder gives a length, or the failure.
LadderStrFamily(length) ==
    IF IntLE(length, PyInt(31)) THEN FixStr
    ELSE IF IntLE(length, XFF) THEN Str8
    ELSE IF IntLE(length, XFFFF) THEN Str16
    ELSE IF IntLE(length, XFFFFFFFF) THEN Str32
    ELSE -1

\* The string family _write_any selects for a length, or the failure.
SelectedStrFamily(length) ==
    IF StrAssertion(length) THEN StrMarkerFor(length) ELSE -1

StrFamily(b) == IF b \div 32 = 5 THEN FixStr ELSE b

\* C4: _write_any gives a string of length L fixstr for L <= 31, str8 up to
\* 0xFF, str16 up to 0xFFFF and str32 up to 0xFFFFFFFF, and fails only above.
C4_StrFamily ==
    /\ ( /\ last.op = "_write_any"
         /\ last.arg.type = "str" )
       => ( /\ last.err = ""
            /\ Written # <<>>
            /\ StrFamily(Written[1]) = LadderStrFamily(PyLen(last.arg.str))
            /\ \A length \in LenInputs :
                  SelectedStrFamily(length) = LadderStrFamily(length) )

\* The bytes a k-byte-wide integer encoding takes, by its leading byte.
IntEncodingSize(b) ==
    CASE b < 128 \/ b >= 224 -> 1
      [] b \in {UInt8, Int8} -> 2
      [] b \in {UInt16, Int16} -> 3
      [] b \in {UInt32, Int32} -> 5
      [] b \in {UInt64, Int64} -> 9
      [] OTHER -> 0

RECURSIVE SumOut(_, _)
SumOut(log, k) == IF k = 0 THEN 0 ELSE SumOut(log, k - 1) + Len(log[k].out)

\* C5: after integer writes and a rewind, the k-th read_int (k up to the
\* number of writes) returns, starts where the k-th write started, consumes
\* exactly the bytes of the k-th write (1 for a fixint, 1 + 1/2/4/8
\* otherwise), and the last of them leaves the cursor at the end.
C5_CursorAdvance ==
    (mode = "rewound" /\ last.op = "read_int")
    => LET k == IF last.err = "" THEN nread ELSE nread + 1
       IN  k <= Len(wlog)
           => ( /\ last.err = ""
                /\ last.pos0 = SumOut(wlog, k - 1)
                /\ pos = last.pos0 + IntEncodingSize(buffer[last.pos0 + 1])
                /\ SubSeq(buffer, last.pos0 + 1, pos) = wlog[k].out
                /\ (k = Len(wlog) => pos = Len(buffer)) )

\* Two writes of different sizes, both read back, the cursor at the end.
C5_Witness ==
    /\ mode = "rewound"
    /\ last.op = "read_int"
    /\ Len(wlog) = 2
    /\ nread = 2
    /\ Len(wlog[1].out) = 1
    /\ Len(wlog[2].out) = 9
    /\ pos = Len(buffer)

\* The failure kinds of the decoder, as the exceptions the reader raises.
DecodeErrorKind(err) ==
    CASE err = "struct.error" -> "UnexpectedEnd"
      [] err = "ValueError" -> "UnknownMarker"
      [] OTHER -> "none"

\* The payload bytes read_int needs after a leading byte, -1 when the byte
\* is of no family read_int decodes.
IntPayloadSize(b) == IntEncodingSize(b) - 1

\* C6: read_int with no byte left, or with fewer bytes left than the marker's
\* payload, fails with UnexpectedEnd; read_int or read_float on a leading
\* byte of no family it decodes fails with UnknownMarker; none returns.
C6_DecodeFailures ==
    /\ (last.op = "read_int" /\ last.pos0 = Len(buffer))
       => DecodeErrorKind(last.err) = "UnexpectedEnd"
    /\ ( /\ last.op = "read_int"
         /\ last.pos0 < Len(buffer)
         /\ IntPayloadSize(buffer[last.pos0 + 1]) >= 0
         /\ Len(buffer) - last.pos0 - 1 < IntPayloadSize(buffer[last.pos0 + 1]) )
       => DecodeErrorKind(last.err) = "UnexpectedEnd"
    /\ ( /\ last.op = "read_int"
         /\ last.pos0 < Len(buffer)
         /\ IntPayloadSize(buffer[last.pos0 + 1]) < 0 )
       => DecodeErrorKind(last.err) = "UnknownMarker"
    /\ ( /\ last.op = "read_float"
         /\ last.pos0 < Len(buffer)
         /\ buffer[last.pos0 + 1] \notin {Float32, Float64} )
       => DecodeErrorKind(last.err) = "UnknownMarker"

\* The single byte of a bool or of None.
BoolNilByte(value) ==
    IF value.type = "NoneType" THEN Nil
    ELSE IF value.bool THEN BoolTrue ELSE BoolFalse

IsBoolNil(value) == value.type \in {"bool", "NoneType"}

RECURSIVE Flatten(_)
Flatten(kv) ==
    IF kv = <<>> THEN <<>> ELSE <<Head(kv)[1], Head(kv)[2]>> \o Flatten(Tail(kv))

\* C7: true is written as the byte 0xC3, false as 0xC2 and nil as 0xC0, by
\* write_bool and write_nil and by _write_any, at top level, as an element
\* of an array and as a key or value of a map.
C7_BoolNil ==
    /\ (last.op \in {"write_bool", "write_nil"})
       => Written = <<BoolNilByte(last.arg)>>
    /\ (last.op = "_write_any" /\ IsBoolNil(last.arg))
       => Written = <<BoolNilByte(last.arg)>>
    /\ ( /\ last.op = "_write_any"
         /\ last.arg.type = "list"
         /\ Len(last.arg.list) \in 1 .. 15
         /\ \A i \in DOMAIN last.arg.list : IsBoolNil(last.arg.list[i]) )
       => Written = <<FixArray + Len(last.arg.list)>>
                    \o [i \in DOMAIN last.arg.list |-> BoolNilByte(last.arg.list[i])]
    /\ ( /\ last.op = "_write_any"
         /\ last.arg.type = "dict"
         /\ Len(last.arg.dict) \in 1 .. 15
         /\ \A i \in DOMAIN Flatten(last.arg.dict) :
               IsBoolNil(Flatten(last.arg.dict)[i]) )
       => Written = <<FixMap + Len(last.arg.dict)>>
                    \o [i \in DOMAIN Flatten(last.arg.dict) |->
                           BoolNilByte(Flatten(last.arg.dict)[i])]

\* The header of a list (fix = FixArray) or dict (fix = FixMap) of n children.
LadderHeader(fix, m16, m32, n) ==
    IF IntLE(n, XF) THEN <<fix + LowByte(n)>>
    ELSE IF IntLE(n, XFFFF) THEN <<m16>> \o LowBytes(n, 2)
    ELSE <<m32>> \o LowBytes(n, 4)

\* Where the encoding of child i starts in the output, after a header of h
\* bytes, when each child takes the bytes of its own encoding.
RECURSIVE ChildOffset(_, _, _)
ChildOffset(children, h, i) ==
    IF i = 1 THEN h
    ELSE ChildOffset(children, h, i - 1) + Len(write_any(children[i - 1]).out)

Framed(w, hdr, children) ==
    /\ SubSeq(w, 1, Len(hdr)) = hdr
    /\ \A i \in DOMAIN children :
          SubSeq(w, ChildOffset(children, Len(hdr), i) + 1,
                 ChildOffset(children, Len(hdr), i + 1))
            = write_any(children[i]).out
    /\ Len(w) = ChildOffset(children, Len(hdr), Len(children) + 1)

\* C8: _write_any writes a list as a fixarray / array16 / array32 header (by
\* n <= 15, n <= 0xFFFF, otherwise) and then its elements' encodings in
\* order, and a dict as a fixmap / map16 / map32 header and then, pair by
\* pair, the key's encoding and the value's; the headers follow the same
\* ladder at every boundary length up to 2^32 - 1.
C8_Framing ==
    /\ (last.op = "_write_any" /\ last.arg.type = "list" /\ last.err = "")
       => Framed(Written,
                 LadderHeader(FixArray, Array16, Array32, PyLen(last.arg.list)),
                 last.arg.list)
    /\ (last.op = "_write_any" /\ last.arg.type = "dict" /\ last.err = "")
       => Framed(Written,
                 LadderHeader(FixMap, Map16, Map32, PyLen(last.arg.dict)),
                 Flatten(last.arg.dict))
    /\ (last.op = "_write_any" /\ last.arg.type \in {"list", "dict"})
       => \A n \in LenInputs \ {Pow2_32} :
             /\ ArrayHeader(ArrTypeFor(n), n)
                  = LadderHeader(FixArray, Array16, Array32, n)
             /\ MapHeader(n) = Ok(LadderHeader(FixMap, Map16, Map32, n))

\* A list of 16 elements written behind an array16 header, after a dict
\* with a nested dict was written.
C8_Witness ==
    /\ last.op = "_write_any"
    /\ last.arg.type = "list"
    /\ Len(last.arg.list) = 16
    /\ last.err = ""
    /\ Written[1] = Array16
    /\ last.pos0 > 0
    /\ last.buf0[1] = FixMap + 2

\* C9: a write call that fails leaves the buffer and the cursor as they were.
C9_FailedEncodeNoTrace ==
    (last.op \in WriteOps /\ last.err # "")
    => (buffer = last.buf0 /\ pos = last.pos0)

\* What write_integer is to append for a value and an integer marker.
ExplicitIntBytes(value, t) ==
    CASE t = PositiveFixInt -> <<t + (LowByte(value) % 128)>>
      [] t = NegativeFixInt -> <<t + (LowByte(value) % 32)>>
      [] t \in {UInt8, Int8} -> <<t>> \o LowBytes(value, 1)
      [] t \in {UInt16, Int16} -> <<t>> \o LowBytes(value, 2)
      [] t \in {UInt32, Int32} -> <<t>> \o LowBytes(value, 4)
      [] t \in {UInt64, Int64} -> <<t>> \o LowBytes(value, 8)

\* C10: write_integer with an integer marker appends to the buffer, leaving
\* the earlier bytes as they were, the marker (with the low 7 or 5 bits of
\* the value for the fixints) and the low 8/16/32/64 bits of the value,
\* big-endian.
C10_ExplicitInt ==
    (last.op = "write_integer" /\ last.t \in IntMarkers)
    => ( /\ last.err = ""
         /\ buffer = last.buf0 \o ExplicitIntBytes(last.arg.int, last.t) )

====
